---- MODULE Spec2Model ----
(***************************************************************************)
(* A model of moon_phase.py: the phase classifier                          *)
(* (AstronomicalCalculator._determine_phase) and the update cycle of the   *)
(* bot (main, MoonPhaseBot.run, Configuration.get_message_id /             *)
(* save_message_id, DiscordWebhookManager.delete_message / post_message).  *)
(*                                                                         *)
(* Ages are counted in hundredths of a day, so that 29.53 days is 2953 and *)
(* the table's whole-day bounds are multiples of 100.                      *)
(* Optional[str] values are strings: None is the Python None, "" the empty *)
(* string (both falsy), anything else a non-empty string.                  *)
(*                                                                         *)
(* The environment: Discord answers each request with a status or the      *)
(* transport raises; the image file exists or not; DISCORD_WEBHOOK is set  *)
(* or not. message_id.txt is read and written without I/O errors, so the   *)
(* except clauses of get_message_id and save_message_id (lines 118-119 and *)
(* 127-128), which log and swallow such errors, are never entered, and     *)
(* calculate_moon_data raises nothing.                                     *)
(***************************************************************************)
EXTENDS Integers, Sequences, FiniteSets, TLC

VARIABLES
    pc,               \* position of the process: main, run, post_message
    runs,             \* number of invocations of the script started so far
    json_error_is_request_exception,
                      \* the installed requests library raises
                      \* requests.exceptions.JSONDecodeError (a
                      \* RequestException, requests >= 2.27) from
                      \* response.json(); older ones raise a plain ValueError
    webhook_url,      \* os.getenv('DISCORD_WEBHOOK')
    retry_attempts,   \* config['retry_attempts']
    days_since_new,   \* observer.date - previous_new_moon, hundredths of a day
    moon_data,        \* what _determine_phase returned (NoData before)
    message_id_file,  \* content of message_id.txt (Absent: no such file)
    channel,          \* identifiers of the bot's messages that exist on Discord
    created,          \* number of messages Discord has created for the bot
    old_message_id,   \* run(): old_message_id
    image_exists,     \* post_message(): image_path.exists()
    attempt,          \* post_message(): the loop variable
    response,         \* the last response session.post returned (NoResponse)
    new_message_id,   \* run(): new_message_id
    request_log,      \* the requests sent in this run, in order
    ephem_calls,      \* ephemeris computations in this run
    file_reads,       \* reads of message_id.txt in this run
    file_writes,      \* writes of message_id.txt attempted in this run
    sleeps,           \* time.sleep calls in this run
    run_result,       \* what bot.run() returned (NoResult before)
    exit_code,        \* sys.exit argument (NoExit while running)
    last_posted_id,   \* history: the identifier post_message returned last,
                      \* in this run or an earlier one (None: never)
    delete_failed,    \* history: a delete request of this or an earlier run
                      \* did not get a 204
    observation,      \* the MoonData fields get_visibility_status reads
    visibility,       \* what get_visibility_status returned (None before)
    coordinate,       \* the argument of _format_ra or _format_dec
    formatted         \* what _format_ra or _format_dec returned

\* the variables of the update cycle and of the classifier
botVars == << runs, json_error_is_request_exception, webhook_url,
              retry_attempts, days_since_new, moon_data, message_id_file,
              channel, created, old_message_id, image_exists, attempt,
              response, new_message_id, request_log, ephem_calls, file_reads,
              file_writes, sleeps, run_result, exit_code, last_posted_id,
              delete_failed >>

\* the variables of the text formatters
formatterVars == << observation, visibility, coordinate, formatted >>

vars == << pc, botVars, formatterVars >>

-----------------------------------------------------------------------------
(* Bounds of the model *)

\* largest retry_attempts value a configuration holds
MaxRetry == 3
\* number of consecutive invocations of the script
MaxRuns == 2
\* the classifier is applied to every age from -AgeUnder to AgeOver
AgeUnder == 60
AgeOver == 3060

-----------------------------------------------------------------------------
(* Values *)

None == "None"
Absent == "Absent"
NoData == [phase_name |-> "", phase_enum |-> "", image_file |-> ""]
NoResponse == [status |-> 0, body |-> "", id |-> None]
NoResult == "NoResult"
NoExit == -1
NoObservation == [is_visible |-> FALSE, rise_time |-> None,
                  transit_time |-> None, altitude |-> 0, azimuth |-> 0]
NoCoordinate == [kind |-> "", value |-> 0]
NoFormatted == [text |-> "", sign |-> "", whole |-> 0, minutes |-> 0,
                seconds |-> 0]

\* Python truthiness of an Optional[str]
Truthy(s) == s # None /\ s # ""

\* class MoonPhase(Enum): the value of a member
MoonPhase(member) ==
    CASE member = "NEW_MOON"        -> "New Moon"
      [] member = "WAXING_CRESCENT" -> "Waxing Crescent"
      [] member = "FIRST_QUARTER"   -> "First Quarter"
      [] member = "WAXING_GIBBOUS"  -> "Waxing Gibbous"
      [] member = "FULL_MOON"       -> "Full Moon"
      [] member = "WANING_GIBBOUS"  -> "Waning Gibbous"
      [] member = "LAST_QUARTER"    -> "Last Quarter"
      [] member = "WANING_CRESCENT" -> "Waning Crescent"

\* _determine_phase: the local phase_mapping, bounds in whole days
phase_mapping ==
    << [days |-> 1,  phase_enum |-> "NEW_MOON",        image |-> "Moon_Phase_5_Alt.png"],
       [days |-> 6,  phase_enum |-> "WAXING_CRESCENT", image |-> "Moon_Phase_6_Alt.png"],
       [days |-> 9,  phase_enum |-> "FIRST_QUARTER",   image |-> "Moon_Phase_7_Alt.png"],
       [days |-> 13, phase_enum |-> "WAXING_GIBBOUS",  image |-> "Moon_Phase_8_Alt.png"],
       [days |-> 16, phase_enum |-> "FULL_MOON",       image |-> "Moon_Phase_1_Alt.png"],
       [days |-> 20, phase_enum |-> "WANING_GIBBOUS",  image |-> "Moon_Phase_2_Alt.png"],
       [days |-> 23, phase_enum |-> "LAST_QUARTER",    image |-> "Moon_Phase_3_Alt.png"],
       [days |-> 30, phase_enum |-> "WANING_CRESCENT", image |-> "Moon_Phase_4_Alt.png"] >>

PhaseTuple(phase_enum, image) ==
    [phase_name |-> MoonPhase(phase_enum), phase_enum |-> phase_enum,
     image_file |-> image]

\* a slip in the fallback: an age past the table wraps to the first row
PhaseFallbackWraps ==
    PhaseTuple("NEW_MOON", "Moon_Phase_5_Alt.png")

\* the return after the loop of _determine_phase
PhaseFallback ==
    PhaseTuple("WANING_CRESCENT", "Moon_Phase_4_Alt.png")

\* the loop of _determine_phase from row i on: the first row whose bound
\* is strictly greater than the age wins (d is in hundredths of a day)
RECURSIVE PhaseLoop(_, _)
PhaseLoop(d, i) ==
    IF i > Len(phase_mapping) THEN PhaseFallback
    ELSE IF d < phase_mapping[i].days * 100
         THEN PhaseTuple(phase_mapping[i].phase_enum, phase_mapping[i].image)
         ELSE PhaseLoop(d, i + 1)

\* the same loop comparing with <= instead of <
RECURSIVE PhaseLoopInclusive(_, _)
PhaseLoopInclusive(d, i) ==
    IF i > Len(phase_mapping) THEN PhaseFallback
    ELSE IF d <= phase_mapping[i].days * 100
         THEN PhaseTuple(phase_mapping[i].phase_enum, phase_mapping[i].image)
         ELSE PhaseLoopInclusive(d, i + 1)

determine_phase_inclusive(d) == PhaseLoopInclusive(d, 1)

\* AstronomicalCalculator._determine_phase
determine_phase(d) == PhaseLoop(d, 1)

-----------------------------------------------------------------------------
(* Initial state: nothing has run, message_id.txt does not exist *)

RunLocalsInit ==
    /\ webhook_url = None
    /\ retry_attempts = 0
    /\ moon_data = NoData
    /\ old_message_id = None
    /\ image_exists = FALSE
    /\ attempt = 0
    /\ response = NoResponse
    /\ new_message_id = None
    /\ request_log = << >>
    /\ ephem_calls = 0
    /\ file_reads = 0
    /\ file_writes = 0
    /\ sleeps = 0
    /\ run_result = NoResult
    /\ exit_code = NoExit

\* the text formatters have not been called
FormatterIdle ==
    /\ observation = NoObservation
    /\ visibility = None
    /\ coordinate = NoCoordinate
    /\ formatted = NoFormatted

PersistentInit ==
    /\ runs = 0
    /\ message_id_file = Absent
    /\ channel = {}
    /\ created = 0
    /\ last_posted_id = None
    /\ delete_failed = FALSE

-----------------------------------------------------------------------------
(* The classifier on its own: every age of the bounded range is classified *)

ClassifierAges == (0 - AgeUnder) .. AgeOver

ClassifyInit ==
    /\ pc = "classify"
    /\ json_error_is_request_exception = FALSE
    /\ days_since_new \in ClassifierAges
    /\ PersistentInit
    /\ RunLocalsInit
    /\ FormatterIdle

Classify ==
    /\ pc = "classify"
    /\ moon_data' = determine_phase(days_since_new)
    /\ pc' = "classified"
    /\ UNCHANGED << runs, json_error_is_request_exception, webhook_url,
                    retry_attempts, days_since_new, message_id_file, channel,
                    created, old_message_id, image_exists, attempt, response,
                    new_message_id, request_log, ephem_calls, file_reads,
                    file_writes, sleeps, run_result, exit_code,
                    last_posted_id, delete_failed, formatterVars >>

ClassifyNext == Classify

ClassifySpec == ClassifyInit /\ [][ClassifyNext]_vars

-----------------------------------------------------------------------------
(* The update cycle: main() and MoonPhaseBot.run(), one action per step *)

\* the values DISCORD_WEBHOOK takes: unset, set to nothing, set to a URL
WebhookValues == {None, "", "https://discord.com/api/webhooks/1/token"}

\* the ages the ephemeris reports in the runs (0.5 and 15.9 days)
RunAges == {50, 1590}

\* the identifier Discord gives the n-th message it creates
MessageId(n) == "m" \o ToString(n)

\* a slip in the status test: only 204 counts as posted
PostAcceptedOnly204(status) == status = 204

\* response.status_code in [200, 204]
PostAccepted(status) == status \in {200, 204}

\* what session.post can give: a RequestException (status 0) or a response.
\* The body of a response is a JSON object holding an 'id' ("id"), a JSON
\* object without a usable 'id' ("no_id"), JSON that is no object
\* ("not_object") or no JSON at all ("not_json"); a 204 carries no content.
PostOutcomes ==
    { [status |-> 0, body |-> "exception"] }
    \cup { [status |-> 200, body |-> b] :
              b \in {"id", "no_id", "not_object", "not_json"} }
    \cup { [status |-> 204, body |-> "not_json"],
           [status |-> 202, body |-> "not_json"],
           [status |-> 500, body |-> "not_json"] }

\* what session.delete can give for a message: a 204 when Discord deleted
\* it (only a message that exists is deleted), a 404 when the message or
\* the webhook is unknown, a 500, or an exception (status 0)
DeleteOutcomes(message_id) ==
    (IF message_id \in channel THEN {204} ELSE {}) \cup {404, 500, 0}

\* post_message, one pass of the loop body: TRUE when the pass ends in the
\* inner except clause or the else branch, so that the loop goes on
PostAttemptContinues(o) ==
    \/ o.status = 0
    \/ ~PostAccepted(o.status)
    \/ /\ PostAccepted(o.status)
       /\ o.body = "not_json"
       /\ json_error_is_request_exception

\* post_message: what the pass returns when it leaves the loop
PostAttemptReturns(o, id) ==
    IF o.body = "id" THEN id ELSE None

Init ==
    /\ pc = "main"
    /\ json_error_is_request_exception \in BOOLEAN
    /\ days_since_new = 0
    /\ PersistentInit
    /\ RunLocalsInit
    /\ FormatterIdle

\* a slip: only an unset variable aborts, an empty one does not
MainAbortsOnNoneOnly(url) == url = None

\* main(): `if not webhook_url:`
MainAborts(url) == ~Truthy(url)

\* main(): lines 655-661
Main ==
    /\ pc = "main"
    /\ runs < MaxRuns
    /\ runs' = runs + 1
    /\ \E url \in WebhookValues :
          /\ webhook_url' = url
          /\ IF MainAborts(url)
             THEN /\ exit_code' = 1
                  /\ pc' = "exited"
                  /\ UNCHANGED retry_attempts
             ELSE /\ \E n \in 0 .. MaxRetry : retry_attempts' = n
                  /\ pc' = "calculate"
                  /\ UNCHANGED exit_code
    /\ UNCHANGED << json_error_is_request_exception, days_since_new,
                    moon_data, message_id_file, channel, created,
                    old_message_id, image_exists, attempt, response,
                    new_message_id, request_log, ephem_calls, file_reads,
                    file_writes, sleeps, run_result,
                    last_posted_id, delete_failed, formatterVars >>

\* run(): moon_data = self.calculator.calculate_moon_data()
CalculateMoonData ==
    /\ pc = "calculate"
    /\ \E d \in RunAges :
          /\ days_since_new' = d
          /\ moon_data' = determine_phase(d)
    /\ ephem_calls' = ephem_calls + 1
    /\ pc' = "get_message_id"
    /\ UNCHANGED << runs, json_error_is_request_exception, webhook_url,
                    retry_attempts, message_id_file, channel, created,
                    old_message_id, image_exists, attempt, response,
                    new_message_id, request_log, file_reads, file_writes,
                    sleeps, run_result, exit_code,
                    last_posted_id, delete_failed, formatterVars >>

\* run(): `if old_message_id:` decides whether delete_message is called
AfterGetMessageId(message_id) ==
    IF Truthy(message_id) THEN "delete" ELSE "post"

\* Configuration.get_message_id: None when there is no file, else the
\* content stripped. The file holds what save_message_id wrote, an
\* identifier, which has no blanks around it, so strip() returns it as it is.
get_message_id ==
    IF message_id_file = Absent THEN None ELSE message_id_file

\* run() lines 627-628: the reference is read, `if old_message_id:` routes
GetMessageId ==
    /\ pc = "get_message_id"
    /\ file_reads' = file_reads + 1
    /\ old_message_id' = get_message_id
    /\ pc' = AfterGetMessageId(old_message_id')
    /\ UNCHANGED << runs, json_error_is_request_exception, webhook_url,
                    retry_attempts, days_since_new, moon_data,
                    message_id_file, channel, created, image_exists, attempt,
                    response, new_message_id, request_log, ephem_calls,
                    file_writes, sleeps, run_result, exit_code,
                    last_posted_id, delete_failed, formatterVars >>

\* a slip: the run gives up when the old message could not be deleted
AfterDeleteStopsOnFailure(deleted) == IF deleted THEN "post" ELSE "finish"

\* a slip: the delete is tried again until it succeeds
AfterDeleteRetries(deleted) == IF deleted THEN "post" ELSE "delete"

\* run() after delete_message returned: its result is not looked at
AfterDelete(deleted) == "post"

\* DiscordWebhookManager.delete_message
DeleteMessage ==
    /\ pc = "delete"
    /\ \E status \in DeleteOutcomes(old_message_id) :
          /\ request_log' = Append(request_log,
                 [op |-> "DELETE", status |-> status, body |-> ""])
          /\ channel' = IF status = 204 THEN channel \ {old_message_id}
                        ELSE channel
          /\ delete_failed' = (delete_failed \/ status # 204)
          /\ pc' = AfterDelete(status = 204)
    /\ UNCHANGED << runs, json_error_is_request_exception, webhook_url,
                    retry_attempts, days_since_new, moon_data,
                    message_id_file, created, old_message_id, image_exists,
                    attempt, response, new_message_id, ephem_calls,
                    file_reads, file_writes, sleeps, run_result, exit_code,
                    last_posted_id, formatterVars >>

\* a slip: the existence of the image is not looked at
AfterImageCheckSkipped(exists) == "post_loop"

\* post_message: `if not image_path.exists(): ... return None`
AfterImageCheck(exists) == IF exists THEN "post_loop" ELSE "finish"

\* post_message, lines 459-463 and the entry of the loop
PostMessage ==
    /\ pc = "post"
    /\ \E exists \in BOOLEAN :
          /\ image_exists' = exists
          /\ pc' = AfterImageCheck(exists)
    /\ attempt' = 0
    /\ new_message_id' = None
    /\ UNCHANGED << runs, json_error_is_request_exception, webhook_url,
                    retry_attempts, days_since_new, moon_data,
                    message_id_file, channel, created, old_message_id,
                    response, request_log, ephem_calls, file_reads,
                    file_writes, sleeps, run_result, exit_code,
                    last_posted_id, delete_failed, formatterVars >>

\* post_message, one pass of the loop body, lines 487-508
PostAttempt ==
    /\ pc = "post_loop"
    /\ attempt < retry_attempts
    /\ \E o \in PostOutcomes :
          LET id == MessageId(created + 1)
              made == o.status \in {200, 204}
          IN  /\ request_log' = Append(request_log,
                     [op |-> "POST", status |-> o.status, body |-> o.body])
              /\ response' = [status |-> o.status, body |-> o.body,
                              id |-> IF made THEN id ELSE None]
              /\ created' = IF made THEN created + 1 ELSE created
              /\ channel' = IF made THEN channel \cup {id} ELSE channel
              /\ IF PostAttemptContinues(o)
                 THEN /\ sleeps' = IF attempt < retry_attempts - 1
                                   THEN sleeps + 1 ELSE sleeps
                      /\ attempt' = attempt + 1
                      /\ UNCHANGED << new_message_id, pc, last_posted_id >>
                 ELSE /\ new_message_id' = PostAttemptReturns(o, id)
                      /\ last_posted_id' =
                            IF Truthy(new_message_id') THEN new_message_id'
                            ELSE last_posted_id
                      /\ pc' = "finish"
                      /\ UNCHANGED << sleeps, attempt >>
    /\ UNCHANGED << runs, json_error_is_request_exception, webhook_url,
                    retry_attempts, days_since_new, moon_data,
                    message_id_file, old_message_id, image_exists,
                    ephem_calls, file_reads, file_writes, run_result,
                    exit_code,
                    delete_failed, formatterVars >>

\* post_message, line 510: the loop ran out, return None
PostExhausted ==
    /\ pc = "post_loop"
    /\ attempt >= retry_attempts
    /\ new_message_id' = None
    /\ pc' = "finish"
    /\ UNCHANGED << runs, json_error_is_request_exception, webhook_url,
                    retry_attempts, days_since_new, moon_data,
                    message_id_file, channel, created, old_message_id,
                    image_exists, attempt, response, request_log,
                    ephem_calls, file_reads, file_writes, sleeps, run_result,
                    exit_code,
                    last_posted_id, delete_failed, formatterVars >>

\* run(): the value returned, from new_message_id
RunReturns(message_id) == Truthy(message_id)

\* main(): sys.exit(0 if success else 1)
ExitCode(success) == IF success THEN 0 ELSE 1

\* a slip: the identifier is not written, the file stays as it was
save_message_id_skipped(message_id) == message_id_file

\* Configuration.save_message_id: the content of message_id.txt afterwards
save_message_id(message_id) == message_id

\* run() lines 636-644 with save_message_id, and main() line 664
Finish ==
    /\ pc = "finish"
    /\ IF Truthy(new_message_id)
       THEN /\ message_id_file' = save_message_id(new_message_id)
            /\ file_writes' = file_writes + 1
       ELSE UNCHANGED << message_id_file, file_writes >>
    /\ run_result' = RunReturns(new_message_id)
    /\ exit_code' = ExitCode(run_result')
    /\ pc' = "exited"
    /\ UNCHANGED << runs, json_error_is_request_exception, webhook_url,
                    retry_attempts, days_since_new, moon_data, channel,
                    created, old_message_id, image_exists, attempt, response,
                    new_message_id, request_log, ephem_calls, file_reads,
                    sleeps,
                    last_posted_id, delete_failed, formatterVars >>

\* the scheduler starts the script again: a new process, nothing kept but
\* message_id.txt and what is on Discord
NextRun ==
    /\ pc = "exited"
    /\ runs < MaxRuns
    /\ pc' = "main"
    /\ webhook_url' = None
    /\ retry_attempts' = 0
    /\ days_since_new' = 0
    /\ moon_data' = NoData
    /\ old_message_id' = None
    /\ image_exists' = FALSE
    /\ attempt' = 0
    /\ response' = NoResponse
    /\ new_message_id' = None
    /\ request_log' = << >>
    /\ ephem_calls' = 0
    /\ file_reads' = 0
    /\ file_writes' = 0
    /\ sleeps' = 0
    /\ run_result' = NoResult
    /\ exit_code' = NoExit
    /\ UNCHANGED << runs, json_error_is_request_exception, message_id_file,
                    channel, created,
                    last_posted_id, delete_failed, formatterVars >>

Next ==
    \/ Main
    \/ CalculateMoonData
    \/ GetMessageId
    \/ DeleteMessage
    \/ PostMessage
    \/ PostAttempt
    \/ PostExhausted
    \/ Finish
    \/ NextRun

Spec == Init /\ [][Next]_vars

-----------------------------------------------------------------------------
(* ContentGenerator.get_visibility_status on its own *)

\* the characters U+2022 (with the blanks around it) and U+00B0 of the
\* source's texts, written in ASCII
Bullet == " [bullet] "
Degree == "[deg]"

\* how an f-string prints a float that was rounded to one decimal; t is
\* the number in tenths
FormatTenths(t) ==
    LET a == IF t < 0 THEN 0 - t ELSE t
    IN  (IF t < 0 THEN "-" ELSE "")
            \o ToString(a \div 10) \o "." \o ToString(a % 10)

\* a slip: the transit time is appended without looking whether it is known
get_visibility_status_always_culminates(md) ==
    IF ~md.is_visible
    THEN IF Truthy(md.rise_time)
         THEN "Below horizon" \o Bullet \o "Rises at " \o md.rise_time \o " UTC"
         ELSE "Below horizon"
    ELSE "Visible" \o Bullet \o "Alt: " \o FormatTenths(md.altitude)
             \o Degree \o Bullet \o "Az: " \o FormatTenths(md.azimuth)
             \o Degree \o Bullet \o "Culminates at " \o md.transit_time
             \o " UTC"

\* ContentGenerator.get_visibility_status
get_visibility_status(md) ==
    IF ~md.is_visible
    THEN IF Truthy(md.rise_time)
         THEN "Below horizon" \o Bullet \o "Rises at " \o md.rise_time \o " UTC"
         ELSE "Below horizon"
    ELSE LET status == "Visible" \o Bullet \o "Alt: "
                           \o FormatTenths(md.altitude) \o Degree \o Bullet
                           \o "Az: " \o FormatTenths(md.azimuth) \o Degree
         IN  IF Truthy(md.transit_time)
             THEN status \o Bullet \o "Culminates at " \o md.transit_time
                      \o " UTC"
             ELSE status

\* rise_time and transit_time of MoonData: None or strftime('%H:%M')
Times == {None, "00:00", "05:41", "23:59"}

\* altitude and azimuth of MoonData, in tenths of a degree
Altitudes == {0 - 325, 0 - 1, 0, 1, 457}
Azimuths == {0, 1234, 3599}

Observations ==
    [is_visible : BOOLEAN, rise_time : Times, transit_time : Times,
     altitude : Altitudes, azimuth : Azimuths]

VisibilityInit ==
    /\ pc = "visibility"
    /\ json_error_is_request_exception = FALSE
    /\ days_since_new = 0
    /\ PersistentInit
    /\ RunLocalsInit
    /\ observation \in Observations
    /\ visibility = None
    /\ coordinate = NoCoordinate
    /\ formatted = NoFormatted

GetVisibilityStatus ==
    /\ pc = "visibility"
    /\ visibility' = get_visibility_status(observation)
    /\ pc' = "visibility_done"
    /\ UNCHANGED << botVars, observation, coordinate, formatted >>

VisibilityNext == GetVisibilityStatus

VisibilitySpec == VisibilityInit /\ [][VisibilityNext]_vars

-----------------------------------------------------------------------------
(* AstronomicalCalculator._format_ra and _format_dec on their own.         *)
(* The arguments are binary floating-point numbers, modelled with a        *)
(* mantissa of MantissaBits bits instead of 53: a float is a whole number  *)
(* of units of 2^-MantissaBits hours or degrees that fits MantissaBits     *)
(* significant bits, and a product is rounded to the nearest float, ties   *)
(* to even. The two subtractions of the source (x - int(x)) are exact in   *)
(* floating point, the two multiplications by 60 round.                    *)

\* bits of the mantissa of a float
MantissaBits == 16

\* every MantissaStride-th mantissa is taken as an input
MantissaStride == 37

\* units per hour of right ascension and per degree of declination
Unit == 2 ^ MantissaBits

\* number of bits of n >= 0
RECURSIVE BitLength(_)
BitLength(n) == IF n = 0 THEN 0 ELSE 1 + BitLength(n \div 2)

\* the float nearest to the number n >= 0 of units, ties to even
RoundMagnitude(n) ==
    LET len == BitLength(n)
    IN  IF len <= MantissaBits THEN n
        ELSE LET ulp == 2 ^ (len - MantissaBits)
                 q == n \div ulp
                 r == n % ulp
             IN  IF 2 * r < ulp THEN q * ulp
                 ELSE IF 2 * r > ulp THEN (q + 1) * ulp
                 ELSE (IF q % 2 = 0 THEN q ELSE q + 1) * ulp

\* the float nearest to the number n of units: sign and magnitude
RoundFloat(n) ==
    IF n < 0 THEN 0 - RoundMagnitude(0 - n) ELSE RoundMagnitude(n)

\* the float product x * 60
Times60(x) == RoundFloat(x * 60)

\* int(x) for a float x >= 0: the fraction is cut off
Truncate(x) == x \div Unit

\* f"{n:02d}"
Pad2(n) == IF n >= 0 /\ n < 10 THEN "0" \o ToString(n) ELSE ToString(n)

\* _format_ra: x is the float ra_hours
format_ra(x) ==
    LET hours == Truncate(x)
        minutes == Truncate(Times60(x - hours * Unit))
        seconds == Truncate(Times60(Times60(x - hours * Unit)
                                        - minutes * Unit))
    IN  [text |-> Pad2(hours) \o "h " \o Pad2(minutes) \o "m "
                      \o Pad2(seconds) \o "s",
         sign |-> "", whole |-> hours, minutes |-> minutes,
         seconds |-> seconds]

\* _format_dec: x is the float dec_deg
format_dec(x) ==
    LET sign == IF x >= 0 THEN "+" ELSE "-"
        dec_deg == IF x < 0 THEN 0 - x ELSE x
        degrees == Truncate(dec_deg)
        minutes == Truncate(Times60(dec_deg - degrees * Unit))
        seconds == Truncate(Times60(Times60(dec_deg - degrees * Unit)
                                        - minutes * Unit))
    IN  [text |-> sign \o Pad2(degrees) \o Degree \o " " \o Pad2(minutes)
                      \o "' " \o Pad2(seconds) \o "\"",
         sign |-> sign, whole |-> degrees, minutes |-> minutes,
         seconds |-> seconds]

\* the mantissas of the inputs
Mantissas == { k * MantissaStride : k \in 0 .. (Unit - 1) \div MantissaStride }

\* the floats of 0 to limit units with these mantissas
Floats(limit) ==
    { n \in { m * 2 ^ e : m \in Mantissas, e \in 0 .. 7 } : n <= limit }

\* right ascensions of [0, 24) hours and declinations of [-90, 90] degrees
Coordinates ==
    { [kind |-> "ra", value |-> x] : x \in Floats(24 * Unit - 1) }
    \cup { [kind |-> "dec", value |-> x] : x \in Floats(90 * Unit) }
    \cup { [kind |-> "dec", value |-> 0 - x] : x \in Floats(90 * Unit) }

FormatInit ==
    /\ pc = "format"
    /\ json_error_is_request_exception = FALSE
    /\ days_since_new = 0
    /\ PersistentInit
    /\ RunLocalsInit
    /\ observation = NoObservation
    /\ visibility = None
    /\ coordinate \in Coordinates
    /\ formatted = NoFormatted

FormatRa ==
    /\ pc = "format"
    /\ coordinate.kind = "ra"
    /\ formatted' = format_ra(coordinate.value)
    /\ pc' = "format_done"
    /\ UNCHANGED << botVars, observation, visibility, coordinate >>

FormatDec ==
    /\ pc = "format"
    /\ coordinate.kind = "dec"
    /\ formatted' = format_dec(coordinate.value)
    /\ pc' = "format_done"
    /\ UNCHANGED << botVars, observation, visibility, coordinate >>

FormatNext == FormatRa \/ FormatDec

FormatSpec == FormatInit /\ [][FormatNext]_vars

-----------------------------------------------------------------------------
(* Properties *)

\* the requests of the run by kind, in the order sent
Deletes == SelectSeq(request_log, LAMBDA e : e.op = "DELETE")
Posts == SelectSeq(request_log, LAMBDA e : e.op = "POST")

\* a create attempt that failed: a transport exception or a non-2xx status
CreateFailed(e) == e.status = 0 \/ e.status \notin 200 .. 299

\* a create attempt that returned a success status with an identifier
CreateGaveId(e) == e.status \in {200, 204} /\ e.body = "id"

\* a create attempt that returned a success status but no usable identifier
CreateMalformed(e) == e.status \in {200, 204} /\ e.body # "id"

Configured == Truthy(webhook_url)

\* the pair the table of section 4.1 gives an age of 0 to 29.53 days
TablePhase(d) ==
    CASE d < 100  -> << "New Moon", "Moon_Phase_5_Alt.png" >>
      [] d >= 100  /\ d < 600  -> << "Waxing Crescent", "Moon_Phase_6_Alt.png" >>
      [] d >= 600  /\ d < 900  -> << "First Quarter", "Moon_Phase_7_Alt.png" >>
      [] d >= 900  /\ d < 1300 -> << "Waxing Gibbous", "Moon_Phase_8_Alt.png" >>
      [] d >= 1300 /\ d < 1600 -> << "Full Moon", "Moon_Phase_1_Alt.png" >>
      [] d >= 1600 /\ d < 2000 -> << "Waning Gibbous", "Moon_Phase_2_Alt.png" >>
      [] d >= 2000 /\ d < 2300 -> << "Last Quarter", "Moon_Phase_3_Alt.png" >>
      [] d >= 2300 -> << "Waning Crescent", "Moon_Phase_4_Alt.png" >>

InRange(d) == 0 <= d /\ d < 2953

\* C1: every age of 0 to 29.53 days is classified as the boundary table
\* says, with bounds closed below and open above, and the phase name
\* returned is the label of the enum member returned.
C1_PhaseTable ==
    (pc = "classified" /\ InRange(days_since_new)) =>
        /\ << moon_data.phase_name, moon_data.image_file >>
               = TablePhase(days_since_new)
        /\ moon_data.phase_name = MoonPhase(moon_data.phase_enum)

\* an age of exactly one day has been classified as Waxing Crescent
C1_Witness ==
    /\ pc = "classified"
    /\ days_since_new = 100
    /\ moon_data.phase_enum = "WAXING_CRESCENT"
    /\ moon_data.image_file = "Moon_Phase_6_Alt.png"

\* C2 as claimed: an age that is negative or at least 29.53 days is
\* rejected, no phase is returned.
C2_OutOfRangeRejected ==
    (pc = "classified" /\ ~InRange(days_since_new)) => moon_data = NoData

\* C2 as the code has it: the classifier never rejects an age. A negative
\* age is classified New Moon and an age of 29.53 days or more Waning
\* Crescent, each with the image of that phase.
C2_OutOfRangeClassified ==
    (pc = "classified" /\ ~InRange(days_since_new)) =>
        /\ moon_data # NoData
        /\ moon_data.phase_name = MoonPhase(moon_data.phase_enum)
        /\ days_since_new < 0 =>
              /\ moon_data.phase_enum = "NEW_MOON"
              /\ moon_data.image_file = "Moon_Phase_5_Alt.png"
        /\ days_since_new >= 2953 =>
              /\ moon_data.phase_enum = "WANING_CRESCENT"
              /\ moon_data.image_file = "Moon_Phase_4_Alt.png"

\* an age past the last row of the table (30 days) has been classified
C2_Witness ==
    /\ pc = "classified"
    /\ days_since_new > 3000
    /\ moon_data.phase_enum = "WANING_CRESCENT"

\* C3: when the first k create attempts fail and attempt k+1 returns 200
\* with an identifier, exactly k+1 attempts are made, post_message returns
\* that identifier and the run succeeds.
C3_RetryThenSuccess ==
    \A k \in 0 .. Len(Posts) - 1 :
        ( /\ \A i \in 1 .. k : CreateFailed(Posts[i])
          /\ Posts[k + 1].status = 200
          /\ Posts[k + 1].body = "id" ) =>
            /\ k < retry_attempts
            /\ Len(Posts) = k + 1
            /\ pc \in {"finish", "exited"}
            /\ Truthy(new_message_id)
            /\ new_message_id = response.id
            /\ pc = "exited" => run_result = TRUE /\ exit_code = 0

\* with a limit of 3, two failed attempts and a third that succeeded
C3_Witness ==
    /\ pc = "exited"
    /\ retry_attempts = 3
    /\ Len(Posts) = 3
    /\ CreateFailed(Posts[1])
    /\ CreateFailed(Posts[2])
    /\ CreateGaveId(Posts[3])
    /\ run_result = TRUE

\* C4 as claimed: the process exits with 0 when a create attempt of the
\* run succeeded (Discord answered it with a success status), and with a
\* non-zero code when no webhook is configured or when every create attempt
\* failed; in the latter case exactly retry_attempts attempts were made.
C4_ExitContract ==
    pc = "exited" =>
        /\ (\E i \in 1 .. Len(Posts) : Posts[i].status \in {200, 204})
              => exit_code = 0
        /\ ~Configured => exit_code > 0
        /\ ( /\ Configured
             /\ image_exists
             /\ \A i \in 1 .. Len(Posts) : CreateFailed(Posts[i]) ) =>
               /\ exit_code > 0
               /\ Len(Posts) = retry_attempts

DeleteFailed == Len(Deletes) > 0 /\ Deletes[1].status # 204

\* the post step returned an identifier
PostSucceeded == Len(Posts) > 0 /\ CreateGaveId(Posts[Len(Posts)])

\* C6: a failed delete never stops the run: the post step follows it, and
\* the outcome of the run is that of the post step alone.
C6_DeleteFailureSwallowed ==
    [][ /\ (pc = "delete" /\ DeleteFailed') => pc' = "post"
        /\ (DeleteFailed' /\ pc' = "exited") =>
              /\ run_result' = PostSucceeded'
              /\ exit_code' = IF PostSucceeded' THEN 0 ELSE 1 ]_vars

\* the delete got a 404 and the run has still posted and succeeded
C6_Witness ==
    /\ pc = "exited"
    /\ Len(Deletes) = 1
    /\ Deletes[1].status = 404
    /\ Len(Posts) > 0
    /\ run_result = TRUE

\* C7 as claimed: when a create attempt got a success status but no
\* identifier could be obtained from the body, nothing is persisted and the
\* run is reported as a success with exit code 0.
C7_MalformedNotFatal ==
    ( /\ pc = "exited"
      /\ \E i \in 1 .. Len(Posts) : CreateMalformed(Posts[i]) ) =>
        /\ file_writes = 0
        /\ run_result = TRUE
        /\ exit_code = 0

\* C8: when the image of the phase does not exist, no create request is
\* sent, post_message returns nothing, the run fails and message_id.txt is
\* not written.
C8_MissingImage ==
    (pc \in {"finish", "exited"} /\ Configured /\ ~image_exists) =>
        /\ Len(Posts) = 0
        /\ sleeps = 0
        /\ new_message_id = None
        /\ pc = "exited" =>
              /\ run_result = FALSE
              /\ exit_code = 1
              /\ file_writes = 0

\* a run allowed three attempts found no image and has failed
C8_Witness ==
    /\ pc = "exited"
    /\ Configured
    /\ retry_attempts = 3
    /\ ~image_exists
    /\ run_result = FALSE

\* C9: without a webhook the process exits non-zero before anything is
\* computed: no ephemeris call, no read or write of message_id.txt, no
\* request.
C9_AbortBeforeComputation ==
    ~Configured =>
        /\ ephem_calls = 0
        /\ file_reads = 0
        /\ file_writes = 0
        /\ request_log = << >>
        /\ moon_data = NoData
        /\ pc = "exited" => exit_code = 1 /\ run_result = NoResult

\* the variable was set to the empty string and the process has exited
C9_Witness ==
    /\ pc = "exited"
    /\ webhook_url = ""
    /\ exit_code = 1

\* C10: the requests of a run are at most one delete, sent only for a
\* stored reference that was read, followed by the create attempts, of
\* which there are at most retry_attempts; no delete follows a create.
C10_DeleteThenPost ==
    /\ Len(Deletes) <= 1
    /\ Len(Deletes) = 1 =>
          /\ file_reads = 1
          /\ Truthy(old_message_id)
          /\ request_log[1].op = "DELETE"
    /\ Len(Posts) <= retry_attempts
    /\ \A i \in 1 .. Len(request_log) : \A j \in 1 .. Len(request_log) :
          (request_log[i].op = "POST" /\ request_log[j].op = "DELETE") => j < i

\* a failed delete was followed by three create attempts
C10_Witness ==
    /\ pc = "exited"
    /\ Len(request_log) = 4
    /\ request_log[1].op = "DELETE"
    /\ request_log[1].status # 204
    /\ \A i \in 2 .. 4 : request_log[i].op = "POST"

\* what message_id.txt holds when the identifier last returned is id
StoredAfter(id) == IF id = None THEN Absent ELSE id

C14_SingleCreate ==
    \A i \in 1 .. Len(Posts) :
        Posts[i].status \in {200, 204} => i = Len(Posts)

\* C15 as claimed: as long as every delete request sent got a 204, at the
\* end of a run at most one message of the bot exists on the channel, and
\* it is the one message_id.txt names.
C15_OneMessageLeft ==
    (pc = "exited" /\ ~delete_failed) =>
        /\ Cardinality(channel) <= 1
        /\ \A m \in channel : m = message_id_file

\* the text of the visible branch up to the azimuth
AltAzText(md) ==
    "Visible [bullet] Alt: " \o FormatTenths(md.altitude)
        \o "[deg] [bullet] Az: " \o FormatTenths(md.azimuth) \o "[deg]"

\* C12: get_visibility_status returns a non-empty text for every
\* combination of visible or not, rise time known or not and transit time
\* known or not: below the horizon with the rise time when it is known and
\* without it otherwise; when visible the altitude and azimuth, followed by
\* the transit time exactly when it is known.
C12_VisibilityTotal ==
    pc = "visibility_done" =>
        LET md == observation
        IN  /\ visibility # None
            /\ Len(visibility) > 0
            /\ (~md.is_visible /\ md.rise_time # None) =>
                  visibility = "Below horizon [bullet] Rises at "
                                   \o md.rise_time \o " UTC"
            /\ (~md.is_visible /\ md.rise_time = None) =>
                  visibility = "Below horizon"
            /\ (md.is_visible /\ md.transit_time # None) =>
                  visibility = AltAzText(md) \o " [bullet] Culminates at "
                                   \o md.transit_time \o " UTC"
            /\ (md.is_visible /\ md.transit_time = None) =>
                  visibility = AltAzText(md)

\* a visible moon without a transit time but with a rise time got the
\* altitude and azimuth text alone
C12_Witness ==
    /\ pc = "visibility_done"
    /\ observation.is_visible
    /\ observation.transit_time = None
    /\ observation.rise_time = "05:41"
    /\ observation.altitude = 457
    /\ observation.azimuth = 1234
    /\ visibility = "Visible [bullet] Alt: 45.7[deg] [bullet] Az: 123.4[deg]"

\* how far the value read back from the components of f is below the
\* magnitude of the input x, in 1/3600 units (a second is Unit of them)
Shortfall(x, f) ==
    ((IF x < 0 THEN 0 - x ELSE x) - f.whole * Unit) * 3600
        - (f.minutes * 60 + f.seconds) * Unit

\* the rounding of the two products: a relative error of 2^-MantissaBits on
\* less than 3600 seconds and on less than 60 seconds, in 1/3600 units
RoundingError == 3600 + 60

\* C13 as claimed: _format_ra and _format_dec cut off to whole minutes and
\* seconds: both are in 0..59, the sign of a declination is + from 0 on
\* and - below, and the value read back from the components is at most one
\* second below the input in magnitude and never above it.
C13_FormatTruncates ==
    pc = "format_done" =>
        /\ formatted.minutes \in 0 .. 59
        /\ formatted.seconds \in 0 .. 59
        /\ coordinate.kind = "dec" =>
              formatted.sign = (IF coordinate.value >= 0 THEN "+" ELSE "-")
        /\ Shortfall(coordinate.value, formatted) >= 0
        /\ Shortfall(coordinate.value, formatted) <= Unit

\* C13 as the code has it: minutes and seconds are in 0..59 and the sign
\* is as claimed, but the products are rounded before they are cut off:
\* the value read back is less than one second plus the rounding error
\* below the input in magnitude, and at most the rounding error above it.
C13_FormatTruncatesRounded ==
    pc = "format_done" =>
        /\ formatted.whole >= 0
        /\ formatted.minutes \in 0 .. 59
        /\ formatted.seconds \in 0 .. 59
        /\ coordinate.kind = "dec" =>
              formatted.sign = (IF coordinate.value >= 0 THEN "+" ELSE "-")
        /\ Shortfall(coordinate.value, formatted) >= 0 - RoundingError
        /\ Shortfall(coordinate.value, formatted) < Unit + RoundingError

\* a declination below 0 whose text is more than a second short of it
C13_Witness ==
    /\ pc = "format_done"
    /\ coordinate.kind = "dec"
    /\ coordinate.value < 0
    /\ formatted.sign = "-"
    /\ formatted.minutes > 0
    /\ Shortfall(coordinate.value, formatted) > Unit

====
